---- MODULE Spec2Model ----
(***************************************************************************)
(* Model of the MTDome azimuth motion simulator (AzimuthMotion).           *)
(*                                                                         *)
(* The Python code computes with floats.  The model computes with exact    *)
(* rationals <<n, d>> (d > 0, lowest terms), so that durations such as     *)
(* |distance| / max_speed and positions such as start + distance * frac    *)
(* are represented exactly.  Angles are measured in a unit for which the   *)
(* half circle (math.pi) is the rational Pi below; times are TAI seconds.  *)
(***************************************************************************)
EXTENDS Integers, Sequences, FiniteSets, TLC

VARIABLES
    start_position,          \* self._start_position
    start_tai,               \* self._start_tai
    end_position,            \* self._end_position
    end_tai,                 \* self._end_tai
    crawl_velocity,          \* self._crawl_velocity
    commanded_motion_state,  \* self._commanded_motion_state
    max_speed,               \* self._max_speed
    cmd,                     \* the last command call: arguments, outcome, query before it
    ncmd,                    \* number of command calls made so far
    qry,                     \* the last query call since the last command, or NoQuery
    amcs,                    \* the AmcsStatus object: a record of its fields
    now,                     \* salobj.current_tai(), in whole seconds
    acmd,                    \* the last command called on the AmcsStatus object
    det                      \* how determine_status ended since that command

vars == <<start_position, start_tai, end_position, end_tai, crawl_velocity,
          commanded_motion_state, max_speed, cmd, ncmd, qry, amcs, now, acmd, det>>

amcs_vars == <<amcs, now, acmd, det>>

motion_vars == <<start_position, start_tai, end_position, end_tai, crawl_velocity,
                 commanded_motion_state, max_speed, cmd, ncmd, qry>>

engine_vars == <<start_position, start_tai, end_position, end_tai, crawl_velocity,
                 commanded_motion_state, max_speed>>

-----------------------------------------------------------------------------
(* Bounds of the model. *)

\* Largest TAI time (whole seconds) at which a command or a query is issued.
MaxTai == 3

\* Largest number of command calls in one behaviour.
MaxCmds == 3

\* Largest value of the clock salobj.current_tai() read by AmcsStatus.
MaxNow == 4

-----------------------------------------------------------------------------
(* Exact arithmetic standing for Python's float arithmetic. *)

Abs(n) == IF n < 0 THEN -n ELSE n

RECURSIVE GCD(_, _)
GCD(a, b) == IF b = 0 THEN a ELSE GCD(b, a % b)

\* The rational n/d in lowest terms with a positive denominator.
Norm(n, d) ==
    LET s == IF d < 0 THEN -1 ELSE 1
        g == GCD(Abs(n), Abs(d))
    IN  <<(s * n) \div g, (s * d) \div g>>

Q(n) == <<n, 1>>

QAdd(a, b) == Norm(a[1] * b[2] + b[1] * a[2], a[2] * b[2])
QSub(a, b) == Norm(a[1] * b[2] - b[1] * a[2], a[2] * b[2])
QMul(a, b) == Norm(a[1] * b[1], a[2] * b[2])
QDiv(a, b) == Norm(a[1] * b[2], a[2] * b[1])
QNeg(a) == <<-a[1], a[2]>>
QLt(a, b) == a[1] * b[2] < b[1] * a[2]
QLe(a, b) == a[1] * b[2] <= b[1] * a[2]
QGe(a, b) == QLe(b, a)
QGt(a, b) == QLt(b, a)
\* math.fabs
fabs(a) == <<Abs(a[1]), a[2]>>
\* Largest integer not above a.
QFloor(a) == a[1] \div a[2]

-----------------------------------------------------------------------------
(* Angles. *)

\* math.pi, in the model's angle unit.
Pi == 3

TwoPi == Q(2 * Pi)

\* math.degrees
degrees(x) == QDiv(QMul(x, Q(180)), Q(Pi))

\* Angle.rad: degrees to radians
rad(d) == QDiv(QMul(d, Q(Pi)), Q(180))

\* salobj.angle_wrap_nonnegative: the angle in degrees wrapped into [0, 360)
angle_wrap_nonnegative(d) == QSub(d, QMul(Q(360), Q(QFloor(QDiv(d, Q(360))))))

-----------------------------------------------------------------------------
(* MotionState *)

STOPPED == "STOPPED"
MOVING == "MOVING"
CRAWLING == "CRAWLING"
PARKING == "PARKING"
PARKED == "PARKED"
STOPPING == "STOPPING"

MotionState == {STOPPED, MOVING, CRAWLING, PARKING, PARKED, STOPPING}

-----------------------------------------------------------------------------
(* The engine as a record of the object's fields. *)

self ==
    [start_position |-> start_position,
     start_tai |-> start_tai,
     end_position |-> end_position,
     end_tai |-> end_tai,
     crawl_velocity |-> crawl_velocity,
     commanded_motion_state |-> commanded_motion_state,
     max_speed |-> max_speed]

\* BaseLlcMotion._get_distance
get_distance(e) == QSub(e.end_position, e.start_position)

\* BaseLlcMotion._get_duration: zero for a crawl
get_duration(e) ==
    IF e.commanded_motion_state = CRAWLING
    THEN Q(0)
    ELSE QDiv(fabs(get_distance(e)), e.max_speed)

\* The outcome of a call: a returned value or a raised ValueError.
Raised == [raised |-> TRUE, position |-> Q(0), velocity |-> Q(0), motion_state |-> "NONE"]

Returned(position, velocity, motion_state) ==
    [raised |-> FALSE, position |-> position, velocity |-> velocity,
     motion_state |-> motion_state]

\* Mutant of wrap_position: wraps into [-pi, pi) as salobj.angle_wrap_center does.
wrap_position_Center(position) ==
    QSub(rad(angle_wrap_nonnegative(QAdd(degrees(position), Q(180)))), Q(Pi))

\* Line 184: the position wrapped into [0, 2 pi)
wrap_position(position) == rad(angle_wrap_nonnegative(degrees(position)))

\* Mutant of crawl_result: the crawl runs at the maximum speed.
crawl_result_MaxSpeed(e, tai) ==
    LET diff_since_crawl_started == QSub(tai, e.end_tai)
        calculation_position ==
            IF e.commanded_motion_state = CRAWLING
            THEN e.start_position
            ELSE e.end_position
        position ==
            QAdd(calculation_position, QMul(e.max_speed, diff_since_crawl_started))
    IN  IF e.crawl_velocity = Q(0)
        THEN Returned(position, Q(0), STOPPED)
        ELSE Returned(position, e.crawl_velocity, CRAWLING)

\* Lines 152-164: the crawl that follows the move, or the pure crawl
crawl_result(e, tai) ==
    LET diff_since_crawl_started == QSub(tai, e.end_tai)
        calculation_position ==
            IF e.commanded_motion_state = CRAWLING
            THEN e.start_position
            ELSE e.end_position
        position ==
            QAdd(calculation_position, QMul(e.crawl_velocity, diff_since_crawl_started))
    IN  IF e.crawl_velocity = Q(0)
        THEN Returned(position, Q(0), STOPPED)
        ELSE Returned(position, e.crawl_velocity, CRAWLING)

\* Mutant of transit_result: the velocity is +max_speed whatever the direction.
transit_result_Unsigned(e, tai) ==
    LET frac_time == QDiv(QSub(tai, e.start_tai), QSub(e.end_tai, e.start_tai))
        distance == get_distance(e)
        position == QAdd(e.start_position, QMul(distance, frac_time))
        velocity == e.max_speed
    IN  IF e.commanded_motion_state = PARKING
        THEN Returned(position, velocity, PARKING)
        ELSE IF e.commanded_motion_state = STOPPING
        THEN Returned(position, Q(0), STOPPED)
        ELSE Returned(position, velocity, MOVING)

\* Mutant of transit_result: a stopped motion in its old time window is
\* reported STOPPED with the velocity of the leg.
transit_result_StoppedAtSpeed(e, tai) ==
    LET frac_time == QDiv(QSub(tai, e.start_tai), QSub(e.end_tai, e.start_tai))
        distance == get_distance(e)
        position == QAdd(e.start_position, QMul(distance, frac_time))
        velocity == IF QLt(distance, Q(0)) THEN QNeg(e.max_speed) ELSE e.max_speed
    IN  IF e.commanded_motion_state = PARKING
        THEN Returned(position, velocity, PARKING)
        ELSE IF e.commanded_motion_state = STOPPING
        THEN Returned(position, velocity, STOPPED)
        ELSE Returned(position, velocity, MOVING)

\* Lines 170-182: the leg from the start position to the end position
transit_result(e, tai) ==
    LET frac_time == QDiv(QSub(tai, e.start_tai), QSub(e.end_tai, e.start_tai))
        distance == get_distance(e)
        position == QAdd(e.start_position, QMul(distance, frac_time))
        velocity == IF QLt(distance, Q(0)) THEN QNeg(e.max_speed) ELSE e.max_speed
    IN  IF e.commanded_motion_state = PARKING
        THEN Returned(position, velocity, PARKING)
        ELSE IF e.commanded_motion_state = STOPPING
        THEN Returned(position, Q(0), STOPPED)
        ELSE Returned(position, velocity, MOVING)

\* Lines 136-182: position, velocity and state before the position is wrapped
unwrapped_result(e, tai) ==
    IF QGe(tai, e.end_tai)
    THEN IF e.commanded_motion_state \in {PARKING, PARKED}
         THEN Returned(e.end_position, Q(0), PARKED)
         ELSE IF e.commanded_motion_state \in {STOPPING, STOPPED}
         THEN Returned(e.end_position, Q(0), STOPPED)
         ELSE crawl_result(e, tai)
    ELSE IF QLt(tai, e.start_tai)
    THEN Raised
    ELSE transit_result(e, tai)

get_position_velocity_and_motion_state(e, tai) ==
    LET r == unwrapped_result(e, tai)
    IN  IF r.raised THEN r ELSE [r EXCEPT !.position = wrap_position(r.position)]

\* The outcome of a command: the fields after the call, whether it raised, and
\* the value it returned.
Outcome(raised, e, ret) == [raised |-> raised, e |-> e, ret |-> ret]

\* Mutant of set_target_position_and_velocity: the motion state is validated
\* after the fields have been assigned.
set_target_ValidatesLate(e, tai, position, velocity, motion_state) ==
    IF QGt(fabs(velocity), e.max_speed)
    THEN Outcome(TRUE, e, Q(0))
    ELSE LET e1 == [e EXCEPT !.commanded_motion_state = motion_state,
                             !.start_tai = tai,
                             !.end_position = position,
                             !.crawl_velocity = velocity]
             duration == get_duration(e1)
         IN  IF motion_state \notin {MOVING, CRAWLING}
             THEN Outcome(TRUE, e1, Q(0))
             ELSE Outcome(FALSE, [e1 EXCEPT !.end_tai = QAdd(e1.start_tai, duration)],
                          duration)

\* Mutant of set_target_position_and_velocity: the duration is computed
\* before the commanded motion state is assigned.
set_target_DurationFirst(e, tai, position, velocity, motion_state) ==
    IF QGt(fabs(velocity), e.max_speed)
    THEN Outcome(TRUE, e, Q(0))
    ELSE IF motion_state \notin {MOVING, CRAWLING}
    THEN Outcome(TRUE, e, Q(0))
    ELSE LET e0 == [e EXCEPT !.start_tai = tai,
                             !.end_position = position,
                             !.crawl_velocity = velocity]
             duration == get_duration(e0)
             e1 == [e0 EXCEPT !.commanded_motion_state = motion_state]
         IN  Outcome(FALSE, [e1 EXCEPT !.end_tai = QAdd(e1.start_tai, duration)],
                     duration)

set_target_position_and_velocity(e, tai, position, velocity, motion_state) ==
    IF QGt(fabs(velocity), e.max_speed)
    THEN Outcome(TRUE, e, Q(0))
    ELSE IF motion_state \notin {MOVING, CRAWLING}
    THEN Outcome(TRUE, e, Q(0))
    ELSE LET e1 == [e EXCEPT !.commanded_motion_state = motion_state,
                             !.start_tai = tai,
                             !.end_position = position,
                             !.crawl_velocity = velocity]
             duration == get_duration(e1)
         IN  Outcome(FALSE, [e1 EXCEPT !.end_tai = QAdd(e1.start_tai, duration)],
                     duration)

\* Mutant of stop: the end position of the stopped motion is kept.
stop_KeepsTarget(e, tai) ==
    LET r == get_position_velocity_and_motion_state(e, tai)
    IN  IF r.raised
        THEN Outcome(TRUE, e, Q(0))
        ELSE Outcome(FALSE,
                     [e EXCEPT !.start_tai = tai,
                               !.start_position = r.position,
                               !.crawl_velocity = Q(0),
                               !.commanded_motion_state = STOPPING],
                     Q(0))

stop(e, tai) ==
    LET r == get_position_velocity_and_motion_state(e, tai)
    IN  IF r.raised
        THEN Outcome(TRUE, e, Q(0))
        ELSE Outcome(FALSE,
                     [e EXCEPT !.start_tai = tai,
                               !.start_position = r.position,
                               !.end_position = r.position,
                               !.crawl_velocity = Q(0),
                               !.commanded_motion_state = STOPPING],
                     Q(0))

\* Mutant of park: the start position is not set to the current position.
park_StaleStart(e, tai) ==
    LET r == get_position_velocity_and_motion_state(e, tai)
    IN  IF r.raised
        THEN Outcome(TRUE, e, Q(0))
        ELSE LET e1 == [e EXCEPT !.start_tai = tai,
                                 !.end_position = Q(0),
                                 !.crawl_velocity = Q(0),
                                 !.commanded_motion_state = PARKING]
                 e2 == [e1 EXCEPT !.end_tai = QAdd(e1.start_tai, get_duration(e1))]
             IN  Outcome(FALSE, e2, e2.end_tai)

park(e, tai) ==
    LET r == get_position_velocity_and_motion_state(e, tai)
    IN  IF r.raised
        THEN Outcome(TRUE, e, Q(0))
        ELSE LET e1 == [e EXCEPT !.start_tai = tai,
                                 !.start_position = r.position,
                                 !.end_position = Q(0),
                                 !.crawl_velocity = Q(0),
                                 !.commanded_motion_state = PARKING]
                 e2 == [e1 EXCEPT !.end_tai = QAdd(e1.start_tai, get_duration(e1))]
             IN  Outcome(FALSE, e2, e2.end_tai)

-----------------------------------------------------------------------------
(* AmcsStatus.  Positions are in degrees and may be +inf or -inf; they are   *)
(* records [inf, n]: n when inf = 0, +infinity when inf = 1, -infinity when  *)
(* inf = -1.  Times and velocities are whole numbers.                        *)

Fin(n) == [inf |-> 0, n |-> n]
\* math.inf
PInf == [inf |-> 1, n |-> 0]
\* -math.inf
NInf == [inf |-> -1, n |-> 0]

\* x + k for a finite k
XAdd(x, k) == IF x.inf # 0 THEN x ELSE Fin(x.n + k)
\* x <= y
XLe(x, y) == IF x.inf # y.inf THEN x.inf < y.inf ELSE (x.inf # 0 \/ x.n <= y.n)
\* x >= y
XGe(x, y) == XLe(y, x)
\* x < y
XLt(x, y) == ~XLe(y, x)

\* OnOff
ON == "ON"
OFF == "OFF"

\* The outcome of determine_status: the object after the call and the error
\* raised ("none" when it returned).
Determined(a, error) == [a |-> a, error |-> error]

\* Lines 135-157: the status dict
llc_status_of(a, current_tai) ==
    [status |-> a.status,
     fans |-> a.fans_enabled,
     inflate |-> a.seal_inflated,
     positionActual |-> a.position_actual,
     positionCommanded |-> a.position_commanded,
     velocityActual |-> a.velocity_actual,
     velocityCommanded |-> a.velocity_commanded,
     timestamp |-> current_tai]

\* Lines 101-134: the commanded position has been reached
boundary_reached(a) ==
    LET a1 == [a EXCEPT !.position_actual = a.position_commanded]
    IN  IF a1.status = MOVING
        THEN IF a1.crawl_velocity > 0
             THEN Determined([a1 EXCEPT !.position_commanded = PInf,
                                        !.motion_velocity = a1.crawl_velocity,
                                        !.status = CRAWLING], "none")
             ELSE IF a1.crawl_velocity < 0
             THEN Determined([a1 EXCEPT !.position_commanded = NInf,
                                        !.motion_velocity = a1.crawl_velocity,
                                        !.status = CRAWLING], "none")
             ELSE Determined([a1 EXCEPT !.position_commanded = a1.position_actual,
                                        !.motion_velocity = a1.crawl_velocity,
                                        !.status = STOPPED], "none")
        ELSE IF a1.status = PARKING
        THEN Determined([a1 EXCEPT !.position_commanded = a1.position_actual,
                                   !.motion_velocity = 0,
                                   !.status = PARKED], "none")
        ELSE IF a1.status = CRAWLING
        THEN Determined(a1, "limit")
        ELSE Determined(a1, "unknown")

\* Lines 80-134: the motion advanced to current_tai
advance(a, current_tai) ==
    LET time_diff == current_tai - a.command_time_tai
    IN  IF a.status # STOPPED
        THEN LET azimuth_step == a.motion_velocity * time_diff
                 a1 == [a EXCEPT !.position_actual = XAdd(a.position_orig, azimuth_step)]
             IN  IF \/ (a1.motion_velocity > 0
                           /\ XGe(a1.position_actual, a1.position_commanded))
                    \/ (a1.motion_velocity < 0
                           /\ XLe(a1.position_actual, a1.position_commanded))
                 THEN boundary_reached(a1)
                 ELSE Determined(a1, "none")
        ELSE Determined(a, "none")

determine_status(a, current_tai) ==
    LET o == advance(a, current_tai)
    IN  IF o.error # "none"
        THEN o
        ELSE Determined([o.a EXCEPT !.llc_status = llc_status_of(o.a, current_tai)],
                        "none")

moveAz(a, position, velocity, tai) ==
    LET a1 == [a EXCEPT !.status = MOVING,
                        !.position_orig = a.position_actual,
                        !.command_time_tai = tai,
                        !.position_commanded = Fin(position),
                        !.crawl_velocity = velocity,
                        !.motion_velocity = a.vmax]
    IN  IF XLt(a1.position_commanded, a1.position_actual)
        THEN [a1 EXCEPT !.motion_velocity = -a.vmax]
        ELSE a1

\* Mutant of crawlAz: the two unreachable commanded positions are swapped.
crawlAz_SwappedLimits(a, velocity, tai) ==
    LET a1 == [a EXCEPT !.position_orig = a.position_actual,
                        !.command_time_tai = tai,
                        !.motion_velocity = velocity,
                        !.status = CRAWLING]
    IN  IF a1.motion_velocity >= 0
        THEN [a1 EXCEPT !.position_commanded = NInf]
        ELSE [a1 EXCEPT !.position_commanded = PInf]

crawlAz(a, velocity, tai) ==
    LET a1 == [a EXCEPT !.position_orig = a.position_actual,
                        !.command_time_tai = tai,
                        !.motion_velocity = velocity,
                        !.status = CRAWLING]
    IN  IF a1.motion_velocity >= 0
        THEN [a1 EXCEPT !.position_commanded = PInf]
        ELSE [a1 EXCEPT !.position_commanded = NInf]

stopAz(a, tai) ==
    [a EXCEPT !.command_time_tai = tai,
              !.status = STOPPED]

\* Mutant of amcs_park: the velocity of the motion is not set.
amcs_park_NoVelocity(a, tai) ==
    [a EXCEPT !.status = PARKING,
              !.position_orig = a.position_actual,
              !.command_time_tai = tai,
              !.position_commanded = Fin(0)]

amcs_park(a, tai) ==
    [a EXCEPT !.status = PARKING,
              !.position_orig = a.position_actual,
              !.command_time_tai = tai,
              !.position_commanded = Fin(0),
              !.motion_velocity = -a.vmax]

inflate(a, action, tai) ==
    [a EXCEPT !.command_time_tai = tai,
              !.seal_inflated = action]

fans(a, action, tai) ==
    [a EXCEPT !.command_time_tai = tai,
              !.fans_enabled = action]

\* The status dict before the first determine_status
NoStatus ==
    [status |-> "NONE", fans |-> OFF, inflate |-> OFF, positionActual |-> Fin(0),
     positionCommanded |-> Fin(0), velocityActual |-> 0, velocityCommanded |-> 0,
     timestamp |-> 0]

\* AmcsStatus.__init__ at time tai, with the velocity limit AmcsLimits.vmax
AmcsStatus(vmax, tai) ==
    [vmax |-> vmax,
     motion_velocity |-> 0,
     crawl_velocity |-> 0,
     status |-> STOPPED,
     fans_enabled |-> OFF,
     seal_inflated |-> OFF,
     position_orig |-> Fin(0),
     position_actual |-> Fin(0),
     position_commanded |-> Fin(0),
     velocity_actual |-> 0,
     velocity_commanded |-> 0,
     command_time_tai |-> tai,
     llc_status |-> NoStatus]

-----------------------------------------------------------------------------
(* The calls a client makes. *)

\* TAI times at which clients call.
Times == {Q(i) : i \in 0..MaxTai}

\* Arguments of the constructor.
StartPositions == {Q(0), Q(4)}
MaxSpeeds == {Q(2)}

\* Arguments of set_target_position_and_velocity: end position, crawl
\* velocity and motion state.  The end position 7 lies beyond 2 pi; the last
\* two sets hold the arguments that the method rejects.
EndPositions == {Q(2), Q(7)}
CrawlVelocities == {Q(-1), Q(0), Q(1)}
Arguments ==
    (EndPositions \X CrawlVelocities \X {MOVING, CRAWLING})
        \cup ({Q(2)} \X {Q(3), Q(-3)} \X {MOVING})
        \cup ({Q(2)} \X {Q(1)} \X {PARKING, STOPPED})

NoQuery == [tai |-> Q(-1), res |-> Raised]

\* AmcsLimits.vmax
VMax == {2}

\* Arguments of moveAz and crawlAz: position and velocity.
AzPositions == {4, -3}
AzVelocities == {-1, 0, 1}

NoCommand == [op |-> "init", position |-> 0, velocity |-> 0, n |-> 0]

\* BaseLlcMotion.__init__ as called by AzimuthMotion.__init__ with start_tai = 0
Init ==
    /\ start_position \in StartPositions
    /\ max_speed \in MaxSpeeds
    /\ start_tai = Q(0)
    /\ end_position = start_position
    /\ end_tai = start_tai
    /\ crawl_velocity = Q(0)
    /\ commanded_motion_state = STOPPED
    /\ cmd = [op |-> "init", tai |-> Q(0), position |-> Q(0), velocity |-> Q(0),
              motion_state |-> STOPPED, raised |-> FALSE, ret |-> Q(0),
              pre |-> Raised]
    /\ ncmd = 0
    /\ qry = NoQuery
    /\ amcs \in {AmcsStatus(vmax, 0) : vmax \in VMax}
    /\ now = 0
    /\ acmd = NoCommand
    /\ det = "pending"

\* A command call at time tai with outcome o; pre is the query at tai before it.
Issue(op, tai, position, velocity, motion_state, o) ==
    /\ ncmd < MaxCmds
    /\ start_position' = o.e.start_position
    /\ start_tai' = o.e.start_tai
    /\ end_position' = o.e.end_position
    /\ end_tai' = o.e.end_tai
    /\ crawl_velocity' = o.e.crawl_velocity
    /\ commanded_motion_state' = o.e.commanded_motion_state
    /\ max_speed' = o.e.max_speed
    /\ cmd' = [op |-> op, tai |-> tai, position |-> position, velocity |-> velocity,
               motion_state |-> motion_state, raised |-> o.raised, ret |-> o.ret,
               pre |-> get_position_velocity_and_motion_state(self, tai)]
    /\ ncmd' = ncmd + 1
    /\ qry' = NoQuery
    /\ UNCHANGED amcs_vars

\* A command call by a client whose timestamps never decrease.
Call(op, tai, position, velocity, motion_state, o) ==
    /\ QGe(tai, cmd.tai)
    /\ Issue(op, tai, position, velocity, motion_state, o)

SetTarget ==
    \E tai \in Times, a \in Arguments :
        Call("set_target", tai, a[1], a[2], a[3],
             set_target_position_and_velocity(self, tai, a[1], a[2], a[3]))

Stop == \E tai \in Times : Call("stop", tai, Q(0), Q(0), STOPPING, stop(self, tai))

Park == \E tai \in Times : Call("park", tai, Q(0), Q(0), PARKING, park(self, tai))

\* Mutant of Query: the query advances the engine to the queried time, as a
\* time-stepped simulation would.
Query_Advances ==
    \E tai \in Times \cup {end_tai} :
        LET r == get_position_velocity_and_motion_state(self, tai)
        IN  /\ qry' = [tai |-> tai, res |-> r]
            /\ start_position' = IF r.raised THEN start_position ELSE r.position
            /\ start_tai' = IF r.raised THEN start_tai ELSE tai
            /\ UNCHANGED <<end_position, end_tai, crawl_velocity,
                           commanded_motion_state, max_speed, cmd, ncmd, amcs_vars>>

\* A query at one of the clients' times or at the end time of the current motion.
Query ==
    \E tai \in Times \cup {end_tai} :
        /\ qry' = [tai |-> tai, res |-> get_position_velocity_and_motion_state(self, tai)]
        /\ UNCHANGED <<engine_vars, cmd, ncmd, amcs_vars>>

Next == SetTarget \/ Stop \/ Park \/ Query

Spec == Init /\ [][Next]_vars

\* Arguments of set_target_position_and_velocity for a client whose
\* timestamps may decrease.
ArgumentsAnyTime == {<<Q(2), Q(1), MOVING>>, <<Q(2), Q(0), CRAWLING>>}

\* The same commands called with any timestamp, smaller than the last or not.
SetTargetAnyTime ==
    \E tai \in Times, a \in ArgumentsAnyTime :
        Issue("set_target", tai, a[1], a[2], a[3],
              set_target_position_and_velocity(self, tai, a[1], a[2], a[3]))

StopAnyTime == \E tai \in Times : Issue("stop", tai, Q(0), Q(0), STOPPING, stop(self, tai))

ParkAnyTime == \E tai \in Times : Issue("park", tai, Q(0), Q(0), PARKING, park(self, tai))

NextAnyTime == SetTargetAnyTime \/ StopAnyTime \/ ParkAnyTime \/ Query

SpecAnyTime == Init /\ [][NextAnyTime]_vars

\* A command called on the AmcsStatus object at the current time.
AmcsCall(op, position, velocity, a) ==
    /\ acmd.n < MaxCmds
    /\ amcs' = a
    /\ acmd' = [op |-> op, position |-> position, velocity |-> velocity,
                n |-> acmd.n + 1]
    /\ det' = "pending"
    /\ UNCHANGED <<now, motion_vars>>

MoveAz ==
    \E position \in AzPositions, velocity \in AzVelocities :
        AmcsCall("moveAz", position, velocity, moveAz(amcs, position, velocity, now))

CrawlAz ==
    \E velocity \in AzVelocities :
        AmcsCall("crawlAz", 0, velocity, crawlAz(amcs, velocity, now))

StopAz == AmcsCall("stopAz", 0, 0, stopAz(amcs, now))

AmcsPark == AmcsCall("park", 0, 0, amcs_park(amcs, now))

Inflate == \E action \in {ON, OFF} : AmcsCall("inflate", 0, 0, inflate(amcs, action, now))

Fans == \E action \in {ON, OFF} : AmcsCall("fans", 0, 0, fans(amcs, action, now))

\* The telemetry cycle: determine_status at the current time.
DetermineStatus ==
    LET o == determine_status(amcs, now)
    IN  /\ amcs' = o.a
        /\ det' = IF o.error = "none" THEN "ok" ELSE o.error
        /\ UNCHANGED <<now, acmd, motion_vars>>

\* The clock advances.
Tick ==
    /\ now < MaxNow
    /\ now' = now + 1
    /\ UNCHANGED <<amcs, acmd, det, motion_vars>>

NextAmcs ==
    MoveAz \/ CrawlAz \/ StopAz \/ AmcsPark \/ Inflate \/ Fans \/ DetermineStatus \/ Tick

\* Both objects constructed; the AzimuthMotion object is left alone.
InitAmcs == Init /\ start_position = Q(0)

SpecAmcs == InitAmcs /\ [][NextAmcs]_vars

\* The clock keeps advancing and determine_status keeps being called.
SpecAmcsFair == SpecAmcs /\ WF_vars(Tick) /\ WF_vars(DetermineStatus)

-----------------------------------------------------------------------------
(* Properties. *)

\* The last call was a command that returned.
Commanded(op) == cmd.op = op /\ ~cmd.raised

\* A query has been made since the last command.
Queried == qry # NoQuery

\* The step is a call of a command.
CommandStep == ncmd' = ncmd + 1

\* The step is a call of the query.
QueryStep == ncmd' = ncmd

\* C1: right after every valid command issued at time t, the query at t
\* returns the position that the query at t returned right before the command.
C1_ContinuityAtCommand ==
    (cmd.op \in {"set_target", "stop", "park"} /\ ~cmd.raised /\ ~cmd.pre.raised)
        => LET r == get_position_velocity_and_motion_state(self, cmd.tai)
           IN  ~r.raised /\ r.position = cmd.pre.position

\* C2: after stop(t), every query at tai >= t returns STOPPED, velocity 0 and
\* the position evaluated at t just before the stop.
C2_StopFreezes ==
    (Commanded("stop") /\ Queried /\ QGe(qry.tai, cmd.tai))
        => qry.res = Returned(cmd.pre.position, Q(0), STOPPED)

\* A stop issued in the middle of a move, queried before the old end time.
C2_Witness ==
    /\ Commanded("stop")
    /\ cmd.pre.motion_state = MOVING
    /\ Queried
    /\ QGt(qry.tai, cmd.tai)
    /\ QLt(qry.tai, end_tai)
    /\ qry.res.position # Q(0)

\* C3: the stored end time is never smaller than the stored start time, and
\* after stop(t) the end time equals t.
C3_EndNotBeforeStart ==
    /\ QGe(end_tai, start_tai)
    /\ Commanded("stop") => end_tai = cmd.tai

\* C4: a query for a time smaller than the stored start time raises.
C4_EarlyQueryRaises ==
    (Queried /\ QLt(qry.tai, start_tai)) => qry.res.raised

\* The arguments of the last set_target call violate its preconditions.
InvalidArguments(c, speed) ==
    \/ QGt(fabs(c.velocity), speed)
    \/ c.motion_state \notin {MOVING, CRAWLING}

\* C5: set_target with |crawl_velocity| > max_speed, or with a motion state
\* other than MOVING or CRAWLING, raises and leaves every field unchanged, so
\* that every query returns the same result before and after the call.
C5_InvalidCommandChangesNothing ==
    [][(CommandStep /\ cmd'.op = "set_target" /\ InvalidArguments(cmd', max_speed))
          => /\ cmd'.raised
             /\ self' = self
             /\ \A tai \in Times :
                    get_position_velocity_and_motion_state(self', tai)
                        = get_position_velocity_and_motion_state(self, tai)]_vars

\* A set_target with a wrong motion state, rejected in the middle of a move.
C5_Witness ==
    /\ cmd.op = "set_target"
    /\ cmd.raised
    /\ cmd.motion_state = PARKING
    /\ ~QGt(fabs(cmd.velocity), max_speed)
    /\ cmd.pre.motion_state = MOVING
    /\ cmd.position # end_position

\* C6: a query leaves every field unchanged, whether it returns or raises,
\* and a query repeated with the same tai returns the same result.
C6_QueryIsPure ==
    [][QueryStep
          => /\ self' = self
             /\ (Queried /\ qry'.tai = qry.tai) => qry'.res = qry.res]_vars

\* A query that returned for a time inside a move in flight.
C6_Witness ==
    /\ Queried
    /\ ~qry.res.raised
    /\ qry.res.motion_state = MOVING
    /\ QGt(qry.tai, start_tai)

\* C7: park(t) returns end_time = t + |position(t) - 0| / max_speed; queries
\* with t <= tai < end_time report PARKING, queries with tai >= end_time
\* report PARKED, position 0 and velocity 0.
C7_ParkCompletes ==
    Commanded("park")
        => /\ cmd.ret = end_tai
           /\ end_tai = QAdd(cmd.tai, QDiv(fabs(QSub(cmd.pre.position, Q(0))), max_speed))
           /\ (Queried /\ QGe(qry.tai, cmd.tai) /\ QLt(qry.tai, end_tai))
                  => (~qry.res.raised /\ qry.res.motion_state = PARKING)
           /\ (Queried /\ QGe(qry.tai, end_tai))
                  => qry.res = Returned(Q(0), Q(0), PARKED)

\* A park issued in the middle of a move, away from the start position of
\* that move, and queried at or after its end time.
C7_Witness ==
    /\ Commanded("park")
    /\ cmd.pre.motion_state = MOVING
    /\ cmd.pre.position # Q(0)
    /\ Queried
    /\ QGe(qry.tai, end_tai)
    /\ QGt(end_tai, cmd.tai)

\* C8: set_target with motion state CRAWLING returns duration 0 and sets
\* end_time = start_time = issued_at; every query at tai >= issued_at reports
\* CRAWLING, or STOPPED when the crawl velocity is 0, and never MOVING.
C8_CrawlStartsAtOnce ==
    (Commanded("set_target") /\ cmd.motion_state = CRAWLING)
        => /\ cmd.ret = Q(0)
           /\ end_tai = cmd.tai
           /\ start_tai = cmd.tai
           /\ (Queried /\ QGe(qry.tai, cmd.tai))
                  => /\ ~qry.res.raised
                     /\ qry.res.motion_state =
                            IF cmd.velocity = Q(0) THEN STOPPED ELSE CRAWLING
                     /\ qry.res.velocity = cmd.velocity

\* A crawl commanded towards an end position away from the start position,
\* queried later.
C8_Witness ==
    /\ Commanded("set_target")
    /\ cmd.motion_state = CRAWLING
    /\ cmd.velocity # Q(0)
    /\ cmd.position # start_position
    /\ Queried
    /\ QGt(qry.tai, cmd.tai)
    /\ qry.res.motion_state = CRAWLING

\* C9: after a valid set_target(t, end_position, crawl_velocity, MOVING) a
\* query at t <= tai < end_time reports MOVING with velocity +max_speed or
\* -max_speed, the sign of end_position - start_position; a query at
\* tai >= end_time reports CRAWLING with the crawl velocity when it is not 0
\* and STOPPED with velocity 0 when it is 0.
C9_MoveThenCrawl ==
    (Commanded("set_target") /\ cmd.motion_state = MOVING
         /\ Queried /\ QGe(qry.tai, cmd.tai))
        => /\ ~qry.res.raised
           /\ QLt(qry.tai, end_tai)
                  => /\ qry.res.motion_state = MOVING
                     /\ qry.res.velocity =
                            IF QLt(end_position, start_position)
                            THEN QNeg(max_speed) ELSE max_speed
           /\ (QGe(qry.tai, end_tai) /\ cmd.velocity # Q(0))
                  => /\ qry.res.motion_state = CRAWLING
                     /\ qry.res.velocity = cmd.velocity
           /\ (QGe(qry.tai, end_tai) /\ cmd.velocity = Q(0))
                  => /\ qry.res.motion_state = STOPPED
                     /\ qry.res.velocity = Q(0)

\* A move towards a smaller position, queried while it is in flight.
C9_Witness ==
    /\ Commanded("set_target")
    /\ cmd.motion_state = MOVING
    /\ QLt(end_position, start_position)
    /\ Queried
    /\ QGt(qry.tai, cmd.tai)
    /\ QLt(qry.tai, end_tai)

\* C10: every position a query returns lies in [0, 2 pi).
C10_PositionInRange ==
    (Queried /\ ~qry.res.raised)
        => /\ QGe(qry.res.position, Q(0))
           /\ QLt(qry.res.position, TwoPi)

\* A crawl with negative velocity that has crossed 0: the raw position is
\* negative and the reported position is just under 2 pi.
C10_Witness ==
    /\ Commanded("set_target")
    /\ cmd.motion_state = CRAWLING
    /\ QLt(crawl_velocity, Q(0))
    /\ Queried
    /\ ~qry.res.raised
    /\ QLt(crawl_result(self, qry.tai).position, Q(0))
    /\ QGt(qry.res.position, Q(Pi))

\* C11: during a nonzero crawl, for query times tai1 < tai2 both at or after
\* the end time, the position before wrapping grows by exactly
\* crawl_velocity * (tai2 - tai1), and the reported positions differ by that
\* amount modulo 2 pi; after a move and after a pure crawl command.
C11_CrawlIsLinear ==
    (Commanded("set_target") /\ cmd.velocity # Q(0) /\ Queried /\ QGe(qry.tai, end_tai))
        => \A tai1 \in Times :
               (QGe(tai1, end_tai) /\ QLt(tai1, qry.tai))
                   => LET step == QMul(crawl_velocity, QSub(qry.tai, tai1))
                          r1 == get_position_velocity_and_motion_state(self, tai1)
                          u1 == unwrapped_result(self, tai1)
                          u2 == unwrapped_result(self, qry.tai)
                      IN  /\ ~qry.res.raised /\ ~r1.raised
                          /\ QSub(u2.position, u1.position) = step
                          /\ wrap_position(QSub(QSub(qry.res.position, r1.position), step))
                                 = Q(0)

\* A crawl that follows a completed move, queried after an earlier time of
\* the same crawl, with a reported position that is not the raw one.
C11_Witness ==
    /\ Commanded("set_target")
    /\ cmd.motion_state = MOVING
    /\ cmd.velocity # Q(0)
    /\ Queried
    /\ qry.res.motion_state = CRAWLING
    /\ QGt(end_tai, cmd.tai)
    /\ \E tai1 \in Times : QGe(tai1, end_tai) /\ QLt(tai1, qry.tai)
    /\ qry.res.position # unwrapped_result(self, qry.tai).position

\* C14: set_target_position_and_velocity, stop and park called with a
\* timestamp smaller than the stored start time raise and leave every field
\* unchanged.
C14_EarlyCommandRejected ==
    [][(CommandStep /\ QLt(cmd'.tai, start_tai)) => (cmd'.raised /\ self' = self)]_vars

\* The last two calls were both op, and the first one returned.
Repeated(op) == CommandStep /\ Commanded(op) /\ cmd'.op = op

\* C15: stop(t2) after stop(t1), t2 >= t1, and park(t2) after a park that has
\* reached PARKED, return and leave the result of every query at tai >= t2
\* unchanged: the same position, velocity 0, STOPPED respectively PARKED at 0.
C15_RepeatedStopPark ==
    [][((Repeated("stop") /\ QGe(cmd'.tai, cmd.tai))
           \/ (Repeated("park") /\ cmd'.pre.motion_state = PARKED))
          => /\ ~cmd'.raised
             /\ \A tai \in Times \cup {end_tai, end_tai'} :
                    QGe(tai, cmd'.tai)
                        => LET before == get_position_velocity_and_motion_state(self, tai)
                               after == get_position_velocity_and_motion_state(self', tai)
                           IN  /\ after = before
                               /\ after.velocity = Q(0)
                               /\ after.position = cmd'.pre.position
                               /\ after.motion_state =
                                      IF cmd'.op = "stop" THEN STOPPED ELSE PARKED
                               /\ cmd'.op = "park" => after.position = Q(0)]_vars

\* A second stop issued before the end time of the move that the first stop
\* interrupted.
C15_Witness ==
    /\ Commanded("stop")
    /\ cmd.pre.motion_state = STOPPED
    /\ QLt(cmd.tai, end_tai)
    /\ cmd.pre.position # Q(0)

\* A second park issued once the first has reached PARKED.
C15_WitnessPark ==
    /\ Commanded("park")
    /\ cmd.pre.motion_state = PARKED
    /\ ncmd >= 2
    /\ QGt(cmd.tai, Q(0))

\* C21: every result a query returns is phase-consistent: the state is one
\* of STOPPED, MOVING, CRAWLING, PARKING, PARKED and never STOPPING; the
\* velocity is 0 exactly when the state is STOPPED or PARKED, has magnitude
\* max_speed when the state is MOVING or PARKING, and is the nonzero crawl
\* velocity when the state is CRAWLING.
C21_PhaseConsistent ==
    (Queried /\ ~qry.res.raised /\ QGt(max_speed, Q(0)))
        => /\ qry.res.motion_state \in {STOPPED, MOVING, CRAWLING, PARKING, PARKED}
           /\ (qry.res.velocity = Q(0)) <=> (qry.res.motion_state \in {STOPPED, PARKED})
           /\ (qry.res.motion_state \in {MOVING, PARKING})
                  => fabs(qry.res.velocity) = max_speed
           /\ (qry.res.motion_state = CRAWLING)
                  => (qry.res.velocity = crawl_velocity /\ crawl_velocity # Q(0))

\* A query inside the time window of a motion that a stop has interrupted:
\* the commanded state is STOPPING and the leg has a velocity of its own.
C21_Witness ==
    /\ Queried
    /\ ~qry.res.raised
    /\ commanded_motion_state = STOPPING
    /\ QGe(qry.tai, start_tai)
    /\ QLt(qry.tai, end_tai)
    /\ qry.res.motion_state = STOPPED
    /\ ncmd >= 2

-----------------------------------------------------------------------------
(* Properties of AmcsStatus. *)

\* The step is a call of a command on the AmcsStatus object.
AmcsCommandStep == acmd'.n = acmd.n + 1

\* The step is a call of determine_status.
DetermineStep == acmd'.n = acmd.n /\ now' = now

\* determine_status has returned since the last command.
Reported == det = "ok"

\* The part of the status dict that describes the motion.
MotionReport(o) ==
    <<o.error, o.a.llc_status.status, o.a.llc_status.positionActual,
      o.a.llc_status.positionCommanded>>

\* C12: inflate and fans issued in any state change only seal_inflated and
\* fans_enabled: the status, positionActual and positionCommanded that a
\* later determine_status reports are the same as without the command.
C12_AuxiliaryLeavesMotion ==
    [][(AmcsCommandStep /\ acmd'.op \in {"inflate", "fans"})
          => \A tai \in now..MaxNow :
                 MotionReport(determine_status(amcs', tai))
                     = MotionReport(determine_status(amcs, tai))]_vars

\* C13: once determine_status has reported PARKED with positionActual 0 after
\* a park command, the next determine_status reports the same.
C13_ParkedIsTerminal ==
    [][(DetermineStep /\ acmd.op = "park" /\ Reported
            /\ amcs.llc_status.status = PARKED
            /\ amcs.llc_status.positionActual = Fin(0))
          => /\ det' = "ok"
             /\ amcs'.llc_status.status = PARKED
             /\ amcs'.llc_status.positionActual = Fin(0)]_vars

\* C16: after crawlAz(0) every determine_status reports STOPPED with an
\* unchanging positionActual.
C16_ZeroCrawlIsStopped ==
    (acmd.op = "crawlAz" /\ acmd.velocity = 0 /\ Reported)
        => /\ amcs.llc_status.status = STOPPED
           /\ amcs.llc_status.positionActual = amcs.position_orig

\* C17: when determine_status has reported the transition from MOVING to
\* CRAWLING at the position P commanded by moveAz(P, v), at time T, a later
\* determine_status at time T + d reports CRAWLING and positionActual
\* P + v * d.
C17_CrawlContinuesFromTarget ==
    [][(DetermineStep /\ acmd.op = "moveAz" /\ acmd.velocity # 0 /\ Reported
            /\ amcs.llc_status.status = CRAWLING
            /\ amcs.llc_status.positionActual = Fin(acmd.position))
          => /\ det' = "ok"
             /\ amcs'.llc_status.status = CRAWLING
             /\ amcs'.llc_status.positionActual =
                    Fin(acmd.position
                            + acmd.velocity
                                * (amcs'.llc_status.timestamp
                                       - amcs.llc_status.timestamp))]_vars

\* No further command is issued, and the park that is under way can reach
\* position 0 before the clock reaches MaxNow.
ParkUnderWay ==
    /\ amcs.status = PARKING
    /\ acmd.n = MaxCmds
    /\ \/ XLe(amcs.position_orig, Fin(0))
       \/ amcs.position_orig.n <= amcs.vmax * (MaxNow - amcs.command_time_tai)

\* determine_status has reported PARKED at position 0.
ParkReported ==
    /\ Reported
    /\ amcs.llc_status.status = PARKED
    /\ amcs.llc_status.positionActual = Fin(0)

\* C18: after park issued from any position, with determine_status called at
\* increasing times and no other command, the status eventually becomes
\* PARKED with positionActual 0.
C18_ParkCompletes == ParkUnderWay ~> ParkReported

\* A park from a position above 0, reported PARKED at a later time.
C18_Witness ==
    /\ acmd.op = "park"
    /\ acmd.n = MaxCmds
    /\ amcs.position_orig.n > 0
    /\ amcs.llc_status.timestamp > amcs.command_time_tai
    /\ ParkReported

\* C19: determine_status never raises the 'Went beyond the limit' error nor
\* the 'Unknown state' error.
C19_NoInternalError == det \notin {"limit", "unknown"}

\* determine_status has found the commanded position reached: a move that
\* turned into a crawl, and a park that ended.
C19_Witness ==
    /\ Reported
    /\ \/ (acmd.op = "moveAz" /\ amcs.llc_status.status = CRAWLING)
       \/ (acmd.op = "park" /\ amcs.llc_status.status = PARKED
               /\ amcs.position_orig # Fin(0))
    /\ acmd.n = MaxCmds

\* The velocity of the motion in each status.
VelocityOf(a) ==
    IF a.status \in {MOVING, PARKING, CRAWLING} THEN a.motion_velocity ELSE 0

\* C20: velocityActual of every status dict equals the velocity of the
\* motion: +vmax or -vmax while MOVING or PARKING, the crawl velocity while
\* CRAWLING, 0 while STOPPED or PARKED.
C20_VelocityActual ==
    Reported
        => /\ amcs.llc_status.velocityActual = VelocityOf(amcs)
           /\ amcs.llc_status.status \in {MOVING, PARKING}
                  => Abs(amcs.llc_status.velocityActual) = amcs.vmax

====
